---------------------------- MODULE Spec2Model ----------------------------
(***************************************************************************)
(* Model of the monitoring dashboard of src/index.tsx: the two backend     *)
(* adapters, the provider selector, the auth screen, the dashboard poller  *)
(* and the app session bootstrap.                                          *)
(*                                                                         *)
(* Strings are sequences of one-character strings, so that includes,       *)
(* split and toUpperCase are computed character by character.              *)
(***************************************************************************)
EXTENDS Integers, Sequences, FiniteSets, TLC

(* ------------------------------ bounds --------------------------------- *)

\* number of fragments an e-mail or full name of the adapter inputs is built of
MaxParts == 3
\* longest password of the adapter inputs
MaxPwLen == 9
\* number of distinct outcomes of Math.random().toString(36)
MaxRand == 2
\* dashboard instances mounted in one process lifetime
MaxInst == 2
\* poll cycles started in one process lifetime
MaxCycles == 2
\* backend toggles recorded in the toggle log
MaxToggles == 2

(* --------------------------- program constants ------------------------- *)

\* password.length >= 8
MinPasswordLen == 8

(* ------------------------------ strings -------------------------------- *)

S_admin == <<"a", "d", "m", "i", "n">>
S_Admin == <<"A", "d", "m", "i", "n">>
S_at == <<"@">>
S_bob == <<"b", "o", "b">>
S_x == <<"x">>
S_empty == <<>>

\* String.prototype.toUpperCase on one character
UpperChar(c) ==
  CASE c = "a" -> "A"
    [] c = "b" -> "B"
    [] c = "d" -> "D"
    [] c = "i" -> "I"
    [] c = "m" -> "M"
    [] c = "n" -> "N"
    [] c = "o" -> "O"
    [] c = "x" -> "X"
    [] OTHER -> c

ToUpperCase(s) == [i \in 1..Len(s) |-> UpperChar(s[i])]

\* String.prototype.includes
Includes(s, sub) ==
  \E i \in 0..(Len(s) - Len(sub)) : SubSeq(s, i + 1, i + Len(sub)) = sub

\* s.split(sep)[0] for a one-character separator: the part before the first sep
SplitFirst(s, sep) ==
  IF \E i \in 1..Len(s) : s[i] = sep
    THEN LET k == CHOOSE i \in 1..Len(s) :
                     s[i] = sep /\ \A j \in 1..(i - 1) : s[j] # sep
         IN SubSeq(s, 1, k - 1)
    ELSE s

(* ------------------------------ values --------------------------------- *)

Rand == 1..MaxRand

NoToken == [kind |-> "absent", suffix |-> 0]
MockToken(r) == [kind |-> "mock-jwt-token-", suffix |-> r]
LiveToken == [kind |-> "live", suffix |-> 0]

NoUser == [id |-> "null", name |-> S_empty, email |-> S_empty, role |-> "null"]
S_OPERATOR == <<"O", "P", "E", "R", "A", "T", "O", "R">>
S_session_restored ==
  <<"s", "e", "s", "s", "i", "o", "n", "@", "r", "e", "s", "t", "o", "r", "e", "d">>
RestoredUser ==
  [id |-> "usr_restored", name |-> S_OPERATOR, email |-> S_session_restored,
   role |-> "OPERATOR"]
MockUserId(r) == IF r = 1 THEN "usr_r1" ELSE IF r = 2 THEN "usr_r2" ELSE "usr_r3"

NoResult == [ok |-> FALSE, error |-> "none", token |-> NoToken, user |-> NoUser]
Resolve(t, u) == [ok |-> TRUE, error |-> "none", token |-> t, user |-> u]
Reject(msg) == [ok |-> FALSE, error |-> msg, token |-> NoToken, user |-> NoUser]

(* --------------------------- MockAdapter ------------------------------- *)

MockLoginWrongRole(email, password, r) ==
  IF Includes(email, S_at) /\ Len(password) >= MinPasswordLen
    THEN Resolve(MockToken(r),
                 [id |-> MockUserId(r),
                  name |-> ToUpperCase(SplitFirst(email, "@")),
                  email |-> email,
                  role |-> IF Includes(ToUpperCase(email), ToUpperCase(S_admin))
                             THEN "ADMIN" ELSE "OPERATOR"])
    ELSE Reject("INVALID CREDENTIALS")

MockLoginNoLengthCheck(email, password, r) ==
  IF Includes(email, S_at)
    THEN Resolve(MockToken(r),
                 [id |-> MockUserId(r),
                  name |-> ToUpperCase(SplitFirst(email, "@")),
                  email |-> email,
                  role |-> IF Includes(email, S_admin) THEN "ADMIN" ELSE "OPERATOR"])
    ELSE Reject("INVALID CREDENTIALS")

\* MockAdapter.login, the outcome of the promise
MockLogin(email, password, r) ==
  IF Includes(email, S_at) /\ Len(password) >= MinPasswordLen
    THEN Resolve(MockToken(r),
                 [id |-> MockUserId(r),
                  name |-> ToUpperCase(SplitFirst(email, "@")),
                  email |-> email,
                  role |-> IF Includes(email, S_admin) THEN "ADMIN" ELSE "OPERATOR"])
    ELSE Reject("INVALID CREDENTIALS")

MockRegisterValidating(email, password, fullName, r) ==
  IF Includes(email, S_at) /\ Len(password) >= MinPasswordLen
    THEN Resolve(MockToken(r),
                 [id |-> MockUserId(r), name |-> ToUpperCase(fullName),
                  email |-> email, role |-> "OPERATOR"])
    ELSE Reject("INVALID CREDENTIALS")

\* MockAdapter.register, the outcome of the promise
MockRegister(email, password, fullName, r) ==
  Resolve(MockToken(r),
          [id |-> MockUserId(r), name |-> ToUpperCase(fullName),
           email |-> email, role |-> "OPERATOR"])

(* --------------------------- LiveAdapter ------------------------------- *)

\* the profiles a server may answer with (res.json() is not validated)
ServerUser(email, role) ==
  [id |-> "usr_srv", name |-> ToUpperCase(SplitFirst(email, "@")),
   email |-> email, role |-> role]

\* LiveAdapter.login: the outcomes of the promise
LiveLoginOutcomes(email) ==
  {Resolve(LiveToken, ServerUser(email, role)) : role \in {"ADMIN", "OPERATOR"}}
    \cup {Reject("Login Failed"), Reject("Failed to fetch")}

\* LiveAdapter.register: the outcomes of the promise
LiveRegisterOutcomes(email) ==
  {Resolve(LiveToken, ServerUser(email, "OPERATOR")),
   Reject("Registration Failed"), Reject("Failed to fetch")}

(* ------------------------- provider selector --------------------------- *)

\* getBackend: localStorage.getItem('use_live_backend') === 'true'
getBackend(flag) == IF flag = "true" THEN "Live" ELSE "Mock"

IsImmediateNever(api) == FALSE

\* MockAdapter.fetchSystemStats / fetchLogs are async functions without a delay:
\* their promise is already resolved and the continuation runs as a microtask
\* of the task that called them. LiveAdapter awaits a network fetch.
IsImmediate(api) == api = "Mock"

(* ------------------------------- state --------------------------------- *)

VARIABLES
  token,          \* localStorage 'token'
  useLiveFlag,    \* localStorage 'use_live_backend': "absent", "true", "false"
  isInitializing, \* App state
  view,           \* App state
  user,           \* App state
  bootTimer,      \* the 800 ms session-restore timeout is pending
  isLogin,        \* AuthScreen state
  isLoading,      \* AuthScreen state
  status,         \* AuthScreen state
  errors,         \* AuthScreen state: the fields with a validation error
  authReqs,       \* login/register promises not yet settled
  loginTimers,    \* the responses of pending setTimeout(() => onLoginSuccess(response.user), 800)
  dash,           \* the mounted DashboardScreen instance, 0 if none
  nextInst,       \* DashboardScreen instances mounted so far
  backendRef,     \* per instance: backend.current
  stats,          \* per instance: the poll cycle whose stats are held, 0 initially
  logs,           \* per instance: the poll cycle whose logs are held, 0 initially
  intervals,      \* instances whose setInterval registration is live
  cycles,         \* fetchData invocations in flight
  nextCycle,      \* fetchData invocations started so far
  activeTab,      \* DashboardScreen state
  settingsUseLive,\* SettingsPanel state useLive
  consoleErrors,  \* number of console.error("Sync failed") calls
  providerCalled, \* a provider operation was invoked since boot
  loggedOut,      \* handleLogout ran and no token was stored since
  mockIn,         \* the adapter called directly: its arguments
  mockOut,        \* the adapter called directly: the settled promise
  devPanel,       \* a DevicesPanel is mounted
  devLoading,     \* DevicesPanel state loading
  devices,        \* DevicesPanel state devices: "none" for [], "list" once fetched
  devReqs,        \* fetchDevices promises not yet settled: whether the panel that
                  \* called is the mounted one (own), and the adapter called
  lastAuth,       \* how the last login/register call settled: "none", "ok", "fail"
  flagLog         \* the stored flag at boot and after each toggle, when recorded

storageVars == <<token, useLiveFlag>>
appVars == <<isInitializing, view, user, bootTimer>>
authVars == <<isLogin, isLoading, status, errors, authReqs, loginTimers, lastAuth>>
dashVars == <<dash, nextInst, backendRef, stats, logs, intervals, cycles,
              nextCycle, activeTab, settingsUseLive, consoleErrors>>
histVars == <<providerCalled, loggedOut>>
mockVars == <<mockIn, mockOut>>
devVars == <<devPanel, devLoading, devices, devReqs>>
sideVars == <<mockVars, flagLog>>
vars == <<storageVars, appVars, authVars, dashVars, devVars, histVars, sideVars>>

Insts == 1..MaxInst
NullStatus == [type |-> "null", message |-> ""]
NoInput == [op |-> "none", email |-> S_empty, password |-> S_empty,
            fullName |-> S_empty]

\* the application's credentials typed into the form
FormEmails == {S_empty, S_bob, S_admin \o S_at \o S_x}
FormPasswords == {S_empty, [i \in 1..3 |-> "x"], [i \in 1..MinPasswordLen |-> "x"]}
FormNames == {S_empty, S_bob}
FormData ==
  [fullName : FormNames, email : FormEmails, password : FormPasswords,
   confirmPassword : FormPasswords]

(* ------------------------------- boot ---------------------------------- *)

AuthMounted == ~isInitializing /\ view = "AUTH"

BootStateNotInitializing(tok) ==
  [isInitializing |-> FALSE,
   bootTimer |-> tok # NoToken,
   view |-> "AUTH",
   user |-> NoUser]

\* The transient state after root.render(<App />) and App's session check
\* effect, given the stored token: with a token the 800 ms restore timeout is
\* armed and the loading screen stays; without one isInitializing is cleared
\* and AuthScreen is rendered with its initial state.
BootState(tok) ==
  [isInitializing |-> tok # NoToken,
   bootTimer |-> tok # NoToken,
   view |-> "AUTH",
   user |-> NoUser]

Booted(tok) ==
  /\ isInitializing' = BootState(tok).isInitializing
  /\ bootTimer' = BootState(tok).bootTimer
  /\ view' = BootState(tok).view
  /\ user' = BootState(tok).user
  /\ isLogin' = TRUE
  /\ isLoading' = FALSE
  /\ status' = NullStatus
  /\ errors' = {}
  /\ authReqs' = {}
  /\ loginTimers' = {}
  /\ dash' = 0
  /\ nextInst' = 0
  /\ backendRef' = [i \in Insts |-> "none"]
  /\ stats' = [i \in Insts |-> 0]
  /\ logs' = [i \in Insts |-> 0]
  /\ intervals' = {}
  /\ cycles' = {}
  /\ nextCycle' = 0
  /\ activeTab' = "OVERVIEW"
  /\ settingsUseLive' = FALSE
  /\ consoleErrors' = 0
  /\ providerCalled' = FALSE
  /\ devPanel' = FALSE
  /\ devLoading' = FALSE
  /\ devices' = "none"
  /\ devReqs' = {}
  /\ lastAuth' = "none"

StoredTokens == {NoToken, LiveToken} \cup {MockToken(r) : r \in Rand}
StoredFlags == {"absent", "true", "false"}

AppInit ==
  /\ token \in StoredTokens
  /\ useLiveFlag \in StoredFlags
  /\ isInitializing = BootState(token).isInitializing
  /\ bootTimer = BootState(token).bootTimer
  /\ view = BootState(token).view
  /\ user = BootState(token).user
  /\ isLogin = TRUE
  /\ isLoading = FALSE
  /\ status = NullStatus
  /\ errors = {}
  /\ authReqs = {}
  /\ loginTimers = {}
  /\ dash = 0
  /\ nextInst = 0
  /\ backendRef = [i \in Insts |-> "none"]
  /\ stats = [i \in Insts |-> 0]
  /\ logs = [i \in Insts |-> 0]
  /\ intervals = {}
  /\ cycles = {}
  /\ nextCycle = 0
  /\ activeTab = "OVERVIEW"
  /\ settingsUseLive = FALSE
  /\ consoleErrors = 0
  /\ providerCalled = FALSE
  /\ loggedOut = FALSE
  /\ devPanel = FALSE
  /\ devLoading = FALSE
  /\ devices = "none"
  /\ devReqs = {}
  /\ lastAuth = "none"

Init ==
  /\ AppInit
  /\ mockIn = NoInput
  /\ mockOut = NoResult
  /\ flagLog = <<>>

\* a continuation of an already resolved promise is queued: it runs before
\* any timer, network or input event is handled
MicrotaskPending == \E c \in cycles \cup devReqs : IsImmediate(c.api)

\* the page is loaded again (the tab is reloaded or the process restarted):
\* every timer, promise and React state of the old page is gone, localStorage
\* is kept
Restart ==
  /\ Booted(token)
  /\ UNCHANGED <<storageVars, loggedOut, sideVars>>

(* ---------------------------- DashboardScreen -------------------------- *)

RegisterIntervalForgotten(ivs, i) == ivs

\* const interval = setInterval(fetchData, 3000)
RegisterInterval(ivs, i) == ivs \cup {i}

\* DashboardScreen is rendered for the first time: useState initial values,
\* backend = useRef(getBackend()), and the polling effect: fetchData() and
\* setInterval(fetchData, 3000)
MountDashboard ==
  LET i == nextInst + 1
      api == getBackend(useLiveFlag)
  IN /\ nextInst < MaxInst
     /\ nextCycle < MaxCycles
     /\ dash' = i
     /\ nextInst' = i
     /\ backendRef' = [backendRef EXCEPT ![i] = api]
     /\ stats' = [stats EXCEPT ![i] = 0]
     /\ logs' = [logs EXCEPT ![i] = 0]
     /\ activeTab' = "OVERVIEW"
     /\ nextCycle' = nextCycle + 1
     /\ cycles' = cycles \cup {[inst |-> i, id |-> nextCycle + 1, api |-> api,
                                pc |-> "stats"]}
     /\ intervals' = RegisterInterval(intervals, i)
     /\ providerCalled' = TRUE
     /\ UNCHANGED <<settingsUseLive, consoleErrors>>

ClearIntervalForgotten(ivs, i) == ivs

\* clearInterval(interval), the cleanup of the polling effect
ClearInterval(ivs, i) == ivs \ {i}

\* the interval of instance i fires: fetchData() up to its first await
Tick(i) ==
  /\ i \in intervals
  /\ ~MicrotaskPending
  /\ nextCycle < MaxCycles
  /\ nextCycle' = nextCycle + 1
  /\ cycles' = cycles \cup {[inst |-> i, id |-> nextCycle + 1,
                             api |-> backendRef[i], pc |-> "stats"]}
  /\ providerCalled' = TRUE
  /\ UNCHANGED <<storageVars, appVars, authVars, dash, nextInst, backendRef, stats,
                 logs, intervals, activeTab, settingsUseLive, consoleErrors,
                 loggedOut, devVars, sideVars>>

\* the continuation of a cycle may run: at once for a resolved promise,
\* otherwise as a task of its own
MayContinue(c) == IsImmediate(c.api) \/ ~MicrotaskPending

SetStatsSkipped(st, c) == st

\* setStats(s): the view shows the result of cycle c
SetStats(st, c) == [st EXCEPT ![c.inst] = c.id]

\* const s = await fetchSystemStats(); setStats(s); fetchLogs() is called
StatsResolve(c) ==
  /\ c \in cycles /\ c.pc = "stats"
  /\ MayContinue(c)
  /\ stats' = SetStats(stats, c)
  /\ cycles' = (cycles \ {c}) \cup {[c EXCEPT !.pc = "logs"]}
  /\ UNCHANGED <<storageVars, appVars, authVars, dash, nextInst, backendRef, logs,
                 intervals, nextCycle, activeTab, settingsUseLive, consoleErrors,
                 histVars, devVars, sideVars>>

\* const l = await fetchLogs(); setLogs(l)
LogsResolve(c) ==
  /\ c \in cycles /\ c.pc = "logs"
  /\ MayContinue(c)
  /\ logs' = [logs EXCEPT ![c.inst] = c.id]
  /\ cycles' = cycles \ {c}
  /\ UNCHANGED <<storageVars, appVars, authVars, dash, nextInst, backendRef, stats,
                 intervals, nextCycle, activeTab, settingsUseLive, consoleErrors,
                 histVars, devVars, sideVars>>

TokenDroppedByFetch(tok) == NoToken

\* the adapters' fetch operations only read the token:
\* const token = localStorage.getItem('token')
TokenAfterFetch(tok) == tok

CatchClearsData(f, c) == [f EXCEPT ![c.inst] = 0]

\* what the catch block of fetchData does to a state cell of the view: nothing
CatchKeepsData(f, c) == f

\* LiveAdapter.fetchSystemStats or fetchLogs throws (non-2xx or network
\* error): catch (e) { console.error("Sync failed", e) }
FetchFail(c) ==
  /\ c \in cycles
  /\ c.api = "Live"
  /\ ~MicrotaskPending
  /\ cycles' = cycles \ {c}
  /\ consoleErrors' = consoleErrors + 1
  /\ stats' = CatchKeepsData(stats, c)
  /\ logs' = CatchKeepsData(logs, c)
  /\ token' = TokenAfterFetch(token)
  /\ UNCHANGED <<useLiveFlag, appVars, authVars, dash, nextInst, backendRef,
                 intervals, nextCycle, activeTab, settingsUseLive, histVars, devVars, sideVars>>

Tabs == {"OVERVIEW", "DEVICES", "LOGS", "SETTINGS"}

\* the calls a re-render of DevicesPanel issues: none, the effect has the
\* dependency list []
NoRefetchOnRender(api) == {}

\* the requests of a panel that is unmounted stay in flight
Disowned(reqs) == {[q EXCEPT !.own = FALSE] : q \in reqs}

\* DevicesPanel is mounted: useState([]), useState(true) and the effect
\* getBackend().fetchDevices()
MountDevicesPanel ==
  /\ devPanel' = TRUE
  /\ devLoading' = TRUE
  /\ devices' = "none"
  /\ devReqs' = Disowned(devReqs) \cup {[own |-> TRUE, api |-> getBackend(useLiveFlag)]}
  /\ providerCalled' = TRUE

\* DevicesPanel is unmounted, or was not mounted: its state is gone
NoDevicesPanel ==
  /\ devPanel' = FALSE
  /\ devLoading' = FALSE
  /\ devices' = "none"
  /\ devReqs' = Disowned(devReqs)
  /\ UNCHANGED providerCalled

\* onClick={() => setActiveTab(item.id)}; SettingsPanel, when it is mounted
\* by this, initialises useLive from localStorage; DevicesPanel, when it is
\* mounted by this, fetches the devices
SetActiveTab(t) ==
  /\ dash # 0
  /\ ~MicrotaskPending
  /\ t # activeTab
  /\ activeTab' = t
  /\ settingsUseLive' = IF t = "SETTINGS" THEN useLiveFlag = "true" ELSE settingsUseLive
  /\ IF t = "DEVICES" THEN MountDevicesPanel ELSE NoDevicesPanel
  /\ UNCHANGED <<storageVars, appVars, authVars, dash, nextInst, backendRef, stats,
                 logs, intervals, cycles, nextCycle, consoleErrors, loggedOut, sideVars>>

\* backend.fetchDevices() resolves: .then(setDevices).finally(() => setLoading(false));
\* the list is set, which renders the panel again
DevicesResolve(q) ==
  /\ q \in devReqs
  /\ MayContinue(q)
  /\ devReqs' = (devReqs \ {q}) \cup (IF q.own THEN NoRefetchOnRender(q.api) ELSE {})
  /\ devices' = IF q.own THEN "list" ELSE devices
  /\ devLoading' = IF q.own THEN FALSE ELSE devLoading
  /\ UNCHANGED <<storageVars, appVars, authVars, dashVars, devPanel, histVars, sideVars>>

LoadingKeptOnFailure(l) == l

\* .finally(() => setLoading(false)) after a rejected fetchDevices
LoadingAfterFailure(l) == FALSE

\* LiveAdapter.fetchDevices throws: .then is skipped, .finally runs
DevicesFail(q) ==
  /\ q \in devReqs
  /\ q.api = "Live"
  /\ ~MicrotaskPending
  /\ devReqs' = devReqs \ {q}
  /\ devLoading' = IF q.own THEN LoadingAfterFailure(devLoading) ELSE devLoading
  /\ UNCHANGED <<storageVars, appVars, authVars, dashVars, devPanel, devices,
                 histVars, sideVars>>

LogoutKeepsToken(tok) == tok

\* localStorage.removeItem('token')
RemoveToken(tok) == NoToken

\* handleLogout, by the button of SettingsPanel; DashboardScreen is unmounted
\* (the cleanup of its polling effect runs) and AuthScreen is mounted
Logout ==
  /\ dash # 0
  /\ activeTab = "SETTINGS"
  /\ ~MicrotaskPending
  /\ token' = RemoveToken(token)
  /\ user' = NoUser
  /\ view' = "AUTH"
  /\ intervals' = ClearInterval(intervals, dash)
  /\ dash' = 0
  /\ isLogin' = TRUE
  /\ isLoading' = FALSE
  /\ status' = NullStatus
  /\ errors' = {}
  /\ lastAuth' = "none"
  /\ loggedOut' = TRUE
  /\ UNCHANGED <<useLiveFlag, isInitializing, bootTimer, authReqs, loginTimers,
                 nextInst, backendRef, stats, logs, cycles, nextCycle, activeTab,
                 settingsUseLive, consoleErrors, providerCalled, devVars, sideVars>>

BoolStringFalse(b) == "false"

\* String(newValue)
BoolString(b) == IF b THEN "true" ELSE "false"

ToggleBackendNoReload ==
  /\ dash # 0
  /\ activeTab = "SETTINGS"
  /\ ~MicrotaskPending
  /\ useLiveFlag' = BoolString(~settingsUseLive)
  /\ settingsUseLive' = ~settingsUseLive
  /\ UNCHANGED <<token, appVars, authVars, dash, nextInst, backendRef, stats,
                 logs, intervals, cycles, nextCycle, activeTab, consoleErrors,
                 devVars, histVars, mockVars>>

\* SettingsPanel.toggleBackend: the flag is written and the page reloaded
ToggleBackendCore ==
  /\ dash # 0
  /\ activeTab = "SETTINGS"
  /\ ~MicrotaskPending
  /\ useLiveFlag' = BoolString(~settingsUseLive)
  /\ Booted(token)
  /\ UNCHANGED <<token, loggedOut, mockVars>>

ToggleBackend == ToggleBackendCore /\ UNCHANGED flagLog

\* the same, the written flag being recorded
ToggleBackendLogged ==
  /\ Len(flagLog) <= MaxToggles
  /\ ToggleBackendCore
  /\ flagLog' = Append(flagLog, useLiveFlag')

(* ------------------------------ AuthScreen ----------------------------- *)

\* onClick={() => setIsLogin(b)}
SetIsLogin(b) ==
  /\ AuthMounted
  /\ ~MicrotaskPending
  /\ isLogin # b
  /\ isLogin' = b
  /\ UNCHANGED <<storageVars, appVars, isLoading, status, errors, authReqs,
                 loginTimers, lastAuth, dashVars, histVars, devVars, sideVars>>

\* the client-side validation of handleSubmit: the fields in error
NewErrors(fd, login) ==
  {f \in {"email"} : fd.email = S_empty}
    \cup {f \in {"password"} : login /\ fd.password = S_empty}
    \cup {f \in {"fullName"} : ~login /\ fd.fullName = S_empty}
    \cup {f \in {"confirmPassword"} : ~login /\ fd.password # fd.confirmPassword}

ValidationNeverFails(errs) == FALSE

\* if (Object.keys(newErrors).length > 0) { setErrors(newErrors); return; }
ValidationFailed(errs) == errs # {}

SubmitAlwaysEnabled == TRUE

\* the submit button is <Button isLoading={isLoading}>, disabled while loading
SubmitEnabled == ~isLoading

\* AuthScreen.handleSubmit up to its await: validation, setIsLoading(true),
\* getBackend() and the call of login or register
Submit(fd) ==
  /\ AuthMounted
  /\ SubmitEnabled
  /\ ~MicrotaskPending
  /\ nextInst < MaxInst /\ nextCycle < MaxCycles
  /\ status' = NullStatus
  /\ lastAuth' = "none"
  /\ IF ValidationFailed(NewErrors(fd, isLogin))
       THEN /\ errors' = NewErrors(fd, isLogin)
            /\ UNCHANGED <<isLoading, authReqs, providerCalled>>
       ELSE /\ errors' = NewErrors(fd, isLogin)
            /\ isLoading' = TRUE
            /\ authReqs' = authReqs \cup
                 {[op |-> IF isLogin THEN "login" ELSE "register",
                   api |-> getBackend(useLiveFlag),
                   email |-> fd.email, password |-> fd.password,
                   fullName |-> IF isLogin THEN S_empty ELSE fd.fullName]}
            /\ providerCalled' = TRUE
  /\ UNCHANGED <<storageVars, appVars, isLogin, loginTimers, dashVars, loggedOut,
                 devVars, sideVars>>

\* the ways the promise of a login or register call settles
Outcomes(q) ==
  IF q.api = "Mock"
    THEN IF q.op = "login"
           THEN {MockLogin(q.email, q.password, r) : r \in Rand}
           ELSE {MockRegister(q.email, q.password, q.fullName, r) : r \in Rand}
    ELSE IF q.op = "login"
           THEN LiveLoginOutcomes(q.email)
           ELSE LiveRegisterOutcomes(q.email)

\* err.message || 'CONNECTION FAILED'
ErrMessage(m) == IF m = "" THEN "CONNECTION FAILED" ELSE m

CatchLoadingKept(l) == l

\* setIsLoading(false) in the catch block of handleSubmit
CatchLoading(l) == FALSE

\* AuthScreen.handleSubmit after its await: on success the status, the token
\* write and the 800 ms timeout of onLoginSuccess; on failure the catch block
AuthSettle(q, out) ==
  /\ q \in authReqs
  /\ out \in Outcomes(q)
  /\ ~MicrotaskPending
  /\ authReqs' = authReqs \ {q}
  /\ IF out.ok
       THEN /\ status' = IF AuthMounted
                           THEN [type |-> "success",
                                 message |-> "AUTHENTICATION SUCCESSFUL"]
                           ELSE status
            /\ token' = out.token
            /\ loginTimers' = loginTimers \cup {out}
            /\ loggedOut' = FALSE
            /\ lastAuth' = "ok"
            /\ UNCHANGED isLoading
       ELSE /\ status' = IF AuthMounted
                           THEN [type |-> "error", message |-> ErrMessage(out.error)]
                           ELSE status
            /\ isLoading' = IF AuthMounted THEN CatchLoading(isLoading) ELSE isLoading
            /\ lastAuth' = "fail"
            /\ UNCHANGED <<token, loginTimers, loggedOut>>
  /\ UNCHANGED <<useLiveFlag, appVars, isLogin, errors, dashVars, providerCalled,
                 devVars, sideVars>>

(* ---------------------------------- App -------------------------------- *)

AdoptedPlaceholder(u) == RestoredUser

AdoptedNothing(u) == NoUser

\* the profile handleLoginSuccess adopts: setUser(userData)
AdoptedUser(u) == u

\* the timeout of handleSubmit fires: handleLoginSuccess(response.user);
\* AuthScreen is unmounted and DashboardScreen mounted
LoginTimerFire(resp) ==
  /\ resp \in loginTimers
  /\ ~MicrotaskPending
  /\ loginTimers' = loginTimers \ {resp}
  /\ user' = AdoptedUser(resp.user)
  /\ view' = "DASHBOARD"
  /\ isLogin' = TRUE
  /\ isLoading' = FALSE
  /\ status' = NullStatus
  /\ errors' = {}
  /\ lastAuth' = "none"
  /\ IF dash = 0 THEN MountDashboard ELSE UNCHANGED <<dashVars, providerCalled>>
  /\ UNCHANGED <<storageVars, isInitializing, bootTimer, authReqs, loggedOut, devVars, sideVars>>

RestoredNothing == NoUser

\* the profile the session check effect restores
RestoredProfile == RestoredUser

\* the 800 ms timeout of the session check effect fires
BootTimerFire ==
  /\ bootTimer
  /\ bootTimer' = FALSE
  /\ user' = RestoredProfile
  /\ view' = "DASHBOARD"
  /\ isInitializing' = FALSE
  /\ MountDashboard
  /\ UNCHANGED <<storageVars, authVars, loggedOut, devVars, sideVars>>

(* ------------------------------ specification -------------------------- *)

Next ==
  \/ Restart
  \/ BootTimerFire
  \/ \E b \in BOOLEAN : SetIsLogin(b)
  \/ \E fd \in FormData : Submit(fd)
  \/ \E q \in authReqs : \E out \in Outcomes(q) : AuthSettle(q, out)
  \/ \E resp \in loginTimers : LoginTimerFire(resp)
  \/ \E i \in Insts : Tick(i)
  \/ \E c \in cycles : StatsResolve(c)
  \/ \E c \in cycles : LogsResolve(c)
  \/ \E c \in cycles : FetchFail(c)
  \/ \E q \in devReqs : DevicesResolve(q)
  \/ \E q \in devReqs : DevicesFail(q)
  \/ \E t \in Tabs : SetActiveTab(t)
  \/ Logout
  \/ ToggleBackend

Spec == Init /\ [][Next]_vars

\* the same program, each flag value written by toggleBackend being recorded
\* after the value the page was first loaded with
InitToggle ==
  /\ AppInit
  /\ mockIn = NoInput
  /\ mockOut = NoResult
  /\ flagLog = <<useLiveFlag>>

NextToggle ==
  \/ Restart
  \/ BootTimerFire
  \/ \E fd \in FormData : Submit(fd)
  \/ \E q \in authReqs : \E out \in Outcomes(q) : AuthSettle(q, out)
  \/ \E resp \in loginTimers : LoginTimerFire(resp)
  \/ \E c \in cycles : StatsResolve(c)
  \/ \E c \in cycles : LogsResolve(c)
  \/ \E c \in cycles : FetchFail(c)
  \/ \E t \in Tabs : SetActiveTab(t)
  \/ \E q \in devReqs : DevicesResolve(q)
  \/ \E q \in devReqs : DevicesFail(q)
  \/ Logout
  \/ ToggleBackendLogged

SpecToggle == InitToggle /\ [][NextToggle]_vars

\* a queued continuation of a resolved promise runs
Microtask ==
  \/ \E c \in cycles : IsImmediate(c.api) /\ (StatsResolve(c) \/ LogsResolve(c))
  \/ \E q \in devReqs : IsImmediate(q.api) /\ DevicesResolve(q)

\* timeouts that are armed fire and queued microtasks run
FairSpec ==
  /\ Spec
  /\ WF_vars(BootTimerFire)
  /\ WF_vars(\E resp \in loginTimers : LoginTimerFire(resp))
  /\ WF_vars(Microtask)

\* in addition a registered interval keeps firing: the continuations queued
\* between two ticks have run by the time the next tick is due
FairPollSpec ==
  /\ FairSpec
  /\ SF_vars(\E i \in Insts : Tick(i))

\* in addition every fetchDevices request gets an answer or fails
FairDevicesSpec ==
  /\ FairSpec
  /\ WF_vars(\E q \in devReqs : DevicesResolve(q) \/ DevicesFail(q))

(* --------------------- the adapter called directly --------------------- *)

EmailFragments == {S_admin, S_Admin, S_at, S_bob, S_x, <<"a", "d">>}

RECURSIVE Concats(_)
\* the strings made of at most n fragments
Concats(n) ==
  IF n = 0 THEN {S_empty}
  ELSE Concats(n - 1) \cup {s \o f : s \in Concats(n - 1), f \in EmailFragments}

MockEmails == Concats(MaxParts)
MockPasswords == {[i \in 1..n |-> "x"] : n \in 0..MaxPwLen}
MockNames == {S_empty, S_bob, S_Admin \o S_x}

MockInputs ==
  [op : {"login"}, email : MockEmails, password : MockPasswords,
   fullName : {S_empty}]
  \cup [op : {"register"}, email : MockEmails, password : MockPasswords,
        fullName : MockNames]

InitMock ==
  /\ AppInit
  /\ token = NoToken
  /\ useLiveFlag = "absent"
  /\ mockIn \in MockInputs
  /\ mockOut = NoResult
  /\ flagLog = <<>>

\* MockAdapter.login(email, password) settles
CallMockLogin ==
  /\ mockIn.op = "login"
  /\ mockOut = NoResult
  /\ \E r \in Rand : mockOut' = MockLogin(mockIn.email, mockIn.password, r)
  /\ UNCHANGED <<storageVars, appVars, authVars, dashVars, histVars, devVars, mockIn, flagLog>>

\* MockAdapter.register(email, password, fullName) settles
CallMockRegister ==
  /\ mockIn.op = "register"
  /\ mockOut = NoResult
  /\ \E r \in Rand :
       mockOut' = MockRegister(mockIn.email, mockIn.password, mockIn.fullName, r)
  /\ UNCHANGED <<storageVars, appVars, authVars, dashVars, histVars, devVars, mockIn, flagLog>>

NextMock == CallMockLogin \/ CallMockRegister

SpecMock == InitMock /\ [][NextMock]_vars

(* ------------------------------- claims -------------------------------- *)

\* the claims' own reading of the credentials, character by character
HasAt(e) == \E i \in 1..Len(e) : e[i] = "@"
HasAdmin(e) ==
  \E i \in 1..Len(e) :
    /\ i + 4 <= Len(e)
    /\ e[i] = "a" /\ e[i + 1] = "d" /\ e[i + 2] = "m" /\ e[i + 3] = "i"
    /\ e[i + 4] = "n"
\* n is the upper-cased part of e before its first "@"
IsUpperLocalPart(n, e) ==
  /\ Len(n) < Len(e)
  /\ e[Len(n) + 1] = "@"
  /\ \A j \in 1..Len(n) : e[j] # "@" /\ n[j] = UpperChar(e[j])
LoginSettled == mockIn.op = "login" /\ mockOut # NoResult
RegisterSettled == mockIn.op = "register" /\ mockOut # NoResult
ValidShape == HasAt(mockIn.email) /\ Len(mockIn.password) >= 8

\* C5: for every e-mail containing "@" and password of length >= 8,
\* MockAdapter.login resolves, the role is ADMIN iff the e-mail contains
\* "admin" (case-sensitive) and OPERATOR otherwise, and the name is the part
\* of the e-mail before the first "@", upper-cased.
C5_LoginValidShape ==
  (LoginSettled /\ ValidShape) =>
    /\ mockOut.ok
    /\ mockOut.token # NoToken
    /\ mockOut.user.role = (IF HasAdmin(mockIn.email) THEN "ADMIN" ELSE "OPERATOR")
    /\ IsUpperLocalPart(mockOut.user.name, mockIn.email)

\* a login with "Admin" (capital A) and a second "@" has resolved as OPERATOR
C5_Witness ==
  /\ LoginSettled /\ ValidShape
  /\ mockIn.email = S_Admin \o S_at \o S_at
  /\ mockOut.ok /\ mockOut.user.role = "OPERATOR"
  /\ mockOut.user.name = <<"A", "D", "M", "I", "N">>

\* C6: for every e-mail lacking "@" or password shorter than 8 characters,
\* MockAdapter.login fails with INVALID CREDENTIALS and returns no token or
\* profile.
C6_LoginInvalidShape ==
  (LoginSettled /\ ~ValidShape) =>
    /\ ~mockOut.ok
    /\ mockOut.error = "INVALID CREDENTIALS"
    /\ mockOut.token = NoToken
    /\ mockOut.user = NoUser

\* a login with "@" but a 7-character password has been rejected
C6_Witness ==
  /\ LoginSettled
  /\ HasAt(mockIn.email) /\ Len(mockIn.password) = 7
  /\ ~mockOut.ok

\* C7: MockAdapter.register succeeds for every input and returns role
\* OPERATOR with the name equal to the full name upper-cased.
C7_RegisterAlwaysOperator ==
  RegisterSettled =>
    /\ mockOut.ok
    /\ mockOut.token # NoToken
    /\ mockOut.user.role = "OPERATOR"
    /\ Len(mockOut.user.name) = Len(mockIn.fullName)
    /\ \A j \in 1..Len(mockIn.fullName) :
         mockOut.user.name[j] = UpperChar(mockIn.fullName[j])

\* a registration with an "admin" e-mail without "@" and an empty password
\* has succeeded
C7_Witness ==
  /\ RegisterSettled
  /\ mockIn.email = S_admin /\ mockIn.password = S_empty
  /\ mockIn.fullName = S_bob
  /\ mockOut.ok /\ mockOut.user.name = <<"B", "O", "B">>

\* instance i was mounted and its cleanup has run
Deactivated(i) == i <= nextInst /\ i # dash
\* the step is not a reload of the page
SamePage == nextInst' >= nextInst

\* C2: a bootstrap that finds a token leaves INITIALIZING only for view
\* DASHBOARD with the synthetic profile (usr_restored, OPERATOR, OPERATOR),
\* no provider operation having been invoked since boot; and it does leave.
C2_SessionRestore ==
  /\ [][(isInitializing /\ ~isInitializing') =>
          /\ token # NoToken
          /\ ~providerCalled
          /\ view' = "DASHBOARD"
          /\ user'.id = "usr_restored"
          /\ user'.name = S_OPERATOR
          /\ user'.role = "OPERATOR"]_vars
  /\ [](isInitializing => token # NoToken /\ user = NoUser /\ ~providerCalled)
  /\ (isInitializing ~> (~isInitializing /\ view = "DASHBOARD"))

\* the session was restored and the dashboard mounted
C2_Witness ==
  /\ ~isInitializing /\ view = "DASHBOARD" /\ dash = 1
  /\ user.id = "usr_restored" /\ token # NoToken

\* C3: logout removes the token, discards the profile and sets the view to
\* AUTH; until a login or register succeeds the token stays absent, so every
\* bootstrap in between ends in AUTH with no profile.
C3_LogoutThenBoot ==
  /\ [][(~loggedOut /\ loggedOut') =>
          token' = NoToken /\ user' = NoUser /\ view' = "AUTH"]_vars
  /\ [](loggedOut =>
          /\ token = NoToken
          /\ ~isInitializing /\ ~bootTimer
          /\ view = "AUTH" /\ user = NoUser)

\* after a logout the page was loaded again
C3_Witness == loggedOut /\ nextInst = 0 /\ view = "AUTH" /\ ~isInitializing

\* C4: when a login or register resolves its token is written to the store;
\* the view leaves AUTH for DASHBOARD only with the profile of a resolved
\* response whose token is the one stored; and the view becomes DASHBOARD.
C4_LoginSuccess ==
  /\ [][\A resp \in loginTimers' \ loginTimers :
          resp.ok /\ token' = resp.token /\ token' # NoToken /\ view' = "AUTH"]_vars
  /\ [][(AuthMounted /\ view' = "DASHBOARD") =>
          \E resp \in loginTimers :
            /\ user' = resp.user
            /\ token = resp.token /\ token' = token
            /\ resp \notin loginTimers']_vars
  /\ ((loginTimers # {}) ~> (view = "DASHBOARD"))

\* a mock login of admin@x was adopted with its own profile and token
C4_Witness ==
  /\ view = "DASHBOARD" /\ dash # 0
  /\ user.role = "ADMIN" /\ user.name = <<"A", "D", "M", "I", "N">>
  /\ user.id # "usr_restored"
  /\ token.kind = "mock-jwt-token-"

\* C1 as claimed: once an instance is deactivated, nothing writes its stats
\* or logs state any more, also when a response of a cycle started before the
\* deactivation arrives afterwards.
C1_NoWriteAfterDeactivation ==
  [][\A i \in Insts :
       (Deactivated(i) /\ SamePage) => stats'[i] = stats[i] /\ logs'[i] = logs[i]]_vars

\* C8: after the cleanup of the polling effect has run for an instance no
\* fetchData cycle is started for it any more: every newly started cycle
\* belongs to the mounted instance, and only that instance holds a timer.
C8_NoOrphanedTimer ==
  /\ [][\A c \in cycles' :
          (c.id > nextCycle /\ SamePage) => ~Deactivated(c.inst) /\ c.inst = dash']_vars
  /\ [](\A i \in intervals : i = dash)

\* an instance was deactivated with a cycle still in flight, and a second
\* instance is polling
C8_Witness ==
  /\ dash = 2 /\ Deactivated(1) /\ intervals = {2}
  /\ \E c \in cycles : c.inst = 1
  /\ nextCycle = MaxCycles

\* C9: a failing fetch of a poll cycle changes neither the view nor the
\* profile, leaves stats and logs as displayed and keeps the interval
\* registered; the mounted instance always holds its timer.
C9_FailureSwallowed ==
  /\ [][(consoleErrors' > consoleErrors) =>
          /\ view' = view /\ user' = user /\ dash' = dash
          /\ isInitializing' = isInitializing
          /\ stats' = stats /\ logs' = logs
          /\ intervals' = intervals]_vars
  /\ [](dash # 0 => (view = "DASHBOARD" /\ dash \in intervals))

\* the logs fetch of cycle 1 failed after its stats were written; the stats
\* remain and a later cycle has been started
C9_Witness ==
  /\ dash = 1 /\ consoleErrors = 1
  /\ stats[1] = 1 /\ logs[1] = 0
  /\ cycles = {[inst |-> 1, id |-> 2, api |-> "Live", pc |-> "stats"]}

\* C10 as claimed: the cycle whose result is held never becomes an older one
C10_NeverRegress ==
  [][\A i \in Insts :
       SamePage => stats'[i] >= stats[i] /\ logs'[i] >= logs[i]]_vars

\* C10 amended: with the simulated provider the cycles of an instance do not
\* overlap and the held results never regress to an older cycle.
C10_MockNeverRegress ==
  /\ [][\A i \in Insts :
          (SamePage /\ backendRef[i] = "Mock") =>
            stats'[i] >= stats[i] /\ logs'[i] >= logs[i]]_vars
  /\ [](Cardinality({c \in cycles : c.api = "Mock"}) <= 1)

\* the simulated provider has answered two cycles of one instance in turn
C10_Witness ==
  /\ dash = 1 /\ backendRef[1] = "Mock"
  /\ stats[1] = 2 /\ logs[1] = 2 /\ cycles = {}

\* C11: when a login or register call fails in the AUTH view, an error
\* message is shown, the loading flag is cleared, no call is outstanding (the
\* request is not retried), the stored token is as before, the view stays
\* AUTH and no profile is adopted.
C11_AuthFailure ==
  /\ [][(lastAuth' = "fail" /\ lastAuth # "fail") =>
          /\ token' = token
          /\ view = "AUTH" /\ view' = "AUTH"
          /\ user' = user
          /\ authReqs' \subseteq authReqs /\ authReqs' # authReqs
          /\ loginTimers' = loginTimers
          /\ providerCalled' = providerCalled]_vars
  /\ [](lastAuth = "fail" =>
          /\ AuthMounted
          /\ status.type = "error" /\ status.message # ""
          /\ ~isLoading
          /\ authReqs = {} /\ loginTimers = {}
          /\ user = NoUser)

\* a login was refused by the remote provider: the error is shown, nothing
\* is stored and the form is usable again
C11_Witness ==
  /\ lastAuth = "fail" /\ useLiveFlag = "true"
  /\ status = [type |-> "error", message |-> "Login Failed"]
  /\ ~isLoading /\ view = "AUTH" /\ token = NoToken

\* the calls that have been made to a provider and are not settled, and the
\* reference the active dashboard polls through
CallsInFlight == {c.api : c \in cycles} \cup {q.api : q \in authReqs}
                   \cup {q.api : q \in devReqs}
                   \cup {backendRef[i] : i \in intervals}

\* the page has just been loaded: nothing of an earlier page is left
FreshPage ==
  /\ cycles = {} /\ authReqs = {} /\ devReqs = {} /\ loginTimers = {}
  /\ intervals = {} /\ dash = 0 /\ nextInst = 0
  /\ backendRef = [i \in Insts |-> "none"]

\* C12: the stored preference determines the provider of every call: each
\* call made or pending, and the reference the poller holds, is the remote
\* provider iff the stored flag is "true"; a change of the flag comes with a
\* full reload, so nothing resolved before it survives.
C12_PreferenceDeterminesProvider ==
  /\ [](\A api \in CallsInFlight : (api = "Live") <=> (useLiveFlag = "true"))
  /\ [][useLiveFlag' # useLiveFlag => FreshPage']_vars

\* the remote provider is selected and the poller's reference, a poll cycle
\* and a devices request are pending on it
C12_Witness ==
  /\ useLiveFlag = "true" /\ dash # 0
  /\ backendRef[dash] = "Live"
  /\ \E c \in cycles : c.api = "Live"
  /\ \E q \in devReqs : q.api = "Live"

\* C13: resolving the provider after a toggle gives the other provider than
\* before it (from a stored "true", "false" or absent flag), and after two
\* toggles the provider resolved at first.
C13_ToggleFlipsProvider ==
  /\ flagLog # <<>> /\ flagLog[Len(flagLog)] = useLiveFlag
  /\ \A k \in 1..Len(flagLog) :
       /\ k >= 2 => getBackend(flagLog[k]) # getBackend(flagLog[k - 1])
       /\ k >= 3 => getBackend(flagLog[k]) = getBackend(flagLog[k - 2])
  /\ dash # 0 /\ Len(flagLog) >= 2 =>
       backendRef[dash] # getBackend(flagLog[Len(flagLog) - 1])

\* the flag was absent, was toggled twice, and the dashboard of the last page
\* load polls the simulated provider again
C13_Witness ==
  /\ Len(flagLog) = 3 /\ flagLog[1] = "absent"
  /\ getBackend(flagLog[2]) = "Live"
  /\ dash # 0 /\ backendRef[dash] = "Mock"

\* C14: activating the dashboard starts a fetch cycle at once and registers
\* the interval; while the view stays active the interval stays registered and
\* every number of started cycles is exceeded (up to the bound MaxCycles),
\* whether earlier cycles succeeded, failed or are still pending.
C14_PollingContinues ==
  /\ [][(dash' # dash /\ dash' # 0) =>
          /\ dash' \in intervals'
          /\ \E c \in cycles' \ cycles : c.inst = dash' /\ c.pc = "stats"]_vars
  /\ [](dash # 0 => dash \in intervals)
  /\ \A i \in Insts : \A n \in 0..(MaxCycles - 1) :
       (dash = i /\ nextCycle = n) ~> (dash # i \/ nextCycle > n)

\* a cycle of the active view failed and a later cycle has been started by the
\* interval all the same
C14_Witness ==
  /\ dash # 0 /\ consoleErrors > 0
  /\ \E c \in cycles : c.inst = dash /\ c.id = nextCycle /\ c.id > 1

\* the state of the session state machine
Phase == IF isInitializing THEN "INITIALIZING" ELSE view

\* C15: the session state machine. A page loaded without a token is in AUTH
\* at once, one loaded with a token is INITIALIZING until the restore timeout
\* takes it to DASHBOARD; AUTH is left for DASHBOARD only by the timeout of a
\* successful login/register, DASHBOARD for AUTH only by logout; INITIALIZING
\* is entered only by loading the page anew, and is always left eventually.
C15_SessionStateMachine ==
  /\ [](isInitializing => token # NoToken /\ bootTimer /\ FreshPage)
  /\ [](FreshPage /\ token = NoToken => Phase = "AUTH")
  /\ [][Phase' # Phase =>
          \/ /\ Phase = "INITIALIZING" /\ Phase' = "DASHBOARD"
             /\ token # NoToken /\ token' = token
          \/ /\ Phase = "AUTH" /\ Phase' = "DASHBOARD"
             /\ lastAuth = "ok"
             /\ \E resp \in loginTimers \ loginTimers' :
                  resp.ok /\ token = resp.token /\ user' = resp.user
          \/ /\ Phase = "DASHBOARD" /\ Phase' = "AUTH"
             /\ activeTab = "SETTINGS" /\ token' = NoToken /\ user' = NoUser
          \/ /\ Phase' = "INITIALIZING"
             /\ FreshPage' /\ token' = token /\ ~providerCalled']_vars
  /\ isInitializing ~> ~isInitializing

\* within one page load the dashboard was left by a logout and entered again
\* by a successful login: DASHBOARD -> AUTH -> DASHBOARD
C15_Witness ==
  /\ Phase = "DASHBOARD" /\ nextInst = 2 /\ dash = 2
  /\ user # NoUser /\ user # RestoredUser
  /\ token # NoToken

\* a step in which a fetch of a provider is issued, answered or fails, within
\* the page
FetchStep ==
  /\ nextInst' = nextInst
  /\ cycles' # cycles \/ devReqs' # devReqs \/ consoleErrors' # consoleErrors

\* C16: no provider operation writes the stored token or the preference: the
\* token changes only by the caller's write of the token a successful
\* login/register returned and by logout, the preference only by
\* toggleBackend (in SETTINGS, with a reload); fetch steps leave both as
\* they are.
C16_ProviderFrame ==
  /\ [][token' # token =>
          \/ /\ dash # 0 /\ activeTab = "SETTINGS"
             /\ token' = NoToken /\ view' = "AUTH" /\ user' = NoUser
          \/ /\ authReqs' # authReqs
             /\ \E resp \in loginTimers' \ loginTimers :
                  resp.ok /\ token' = resp.token]_vars
  /\ [][useLiveFlag' # useLiveFlag =>
          dash # 0 /\ activeTab = "SETTINGS" /\ FreshPage' /\ token' = token]_vars
  /\ [][FetchStep => token' = token /\ useLiveFlag' = useLiveFlag]_vars
  /\ [][authReqs' # authReqs => useLiveFlag' = useLiveFlag \/ FreshPage']_vars

\* a login stored its token, and afterwards fetches of the remote provider
\* succeeded and failed with the token still in place
C16_Witness ==
  /\ token = LiveToken /\ dash # 0
  /\ stats[dash] > 0 /\ consoleErrors > 0 /\ devices = "list"
  /\ user # RestoredUser

\* C17: a mount of DevicesPanel issues one fetchDevices call and the mounted
\* panel issues no other; the loading indicator is shown exactly while that
\* call is pending, and it is cleared eventually, by the answer or by the
\* failure, unless the panel is unmounted first.
C17_DevicesFetchOnce ==
  /\ [](Cardinality({q \in devReqs : q.own}) <= 1)
  /\ [](devPanel => (devLoading <=> \E q \in devReqs : q.own))
  /\ [](~devPanel => ~devLoading /\ \A q \in devReqs : ~q.own)
  /\ [][(\E q \in devReqs' \ devReqs : q.own) =>
          /\ activeTab # "DEVICES" /\ activeTab' = "DEVICES"
          /\ devPanel' /\ devLoading'
          /\ \A q \in devReqs' \ devReqs : q.api = getBackend(useLiveFlag)]_vars
  /\ [][(devPanel /\ devPanel' /\ devLoading /\ ~devLoading' /\ SamePage) =>
          \E q \in devReqs \ devReqs' : q.own]_vars
  /\ (devPanel /\ devLoading) ~> (~devLoading \/ ~devPanel)

\* the call of a mounted panel failed: the indicator is cleared, no list is
\* shown and no further call is made
C17_Witness ==
  /\ devPanel /\ ~devLoading /\ devices = "none"
  /\ \A q \in devReqs : ~q.own

C19_LogsAfterStats ==
  /\ [][\A c \in cycles' \ cycles : c.pc = "logs" =>
          /\ [c EXCEPT !.pc = "stats"] \in cycles \ cycles'
          /\ stats'[c.inst] = c.id]_vars
  /\ [][consoleErrors' > consoleErrors =>
          /\ stats' = stats /\ logs' = logs
          /\ \E c \in cycles :
               /\ cycles' = cycles \ {c}
               /\ c.pc = "logs" => stats'[c.inst] # 0]_vars
  /\ [][(logs' # logs /\ SamePage) =>
          \E c \in cycles \ cycles' :
            c.pc = "logs" /\ logs' = [logs EXCEPT ![c.inst] = c.id]]_vars

\* the first cycle of a view failed at its stats fetch and the second at its
\* logs fetch: the view shows the stats of the second cycle and no logs
C19_Witness ==
  /\ dash # 0 /\ consoleErrors = 2
  /\ stats[dash] = nextCycle /\ logs[dash] = 0
  /\ \A c \in cycles : c.inst # dash

\* the page is loaded anew after a provider had been called on the old page
PageLoad == providerCalled /\ ~providerCalled' /\ FreshPage'

\* C20: at most one login/register call of an AuthScreen is pending or has
\* succeeded and awaits the change of view; as long as there is one the
\* AuthScreen is mounted with its loading flag set; a new call is made only
\* with the flag clear and nothing outstanding; hence a success writes the
\* token once and its timeout changes the view to DASHBOARD once.
C20_OneAuthRequest ==
  /\ [](Cardinality(authReqs) + Cardinality(loginTimers) <= 1)
  /\ [](authReqs # {} \/ loginTimers # {} => AuthMounted /\ isLoading)
  /\ [][~(authReqs' \subseteq authReqs) =>
          ~isLoading /\ authReqs = {} /\ loginTimers = {} /\ isLoading']_vars
  /\ [][(isLoading /\ ~isLoading' /\ ~PageLoad /\ view' = "AUTH") =>
          lastAuth' = "fail" /\ authReqs # {} /\ authReqs' = {}]_vars
  /\ [][loginTimers' # loginTimers /\ loginTimers' # {} =>
          /\ loginTimers = {} /\ authReqs' = {} /\ authReqs # {}
          /\ \E resp \in loginTimers' : token' = resp.token]_vars
  /\ [][loginTimers # {} /\ loginTimers' = {} /\ ~PageLoad =>
          view = "AUTH" /\ view' = "DASHBOARD" /\ token' = token]_vars

\* a registration succeeded: its token is stored, its timeout is armed and
\* the loading flag is still set, so that no further call can be made
C20_Witness ==
  /\ loginTimers # {} /\ authReqs = {} /\ isLoading /\ ~isLogin
  /\ lastAuth = "ok" /\ view = "AUTH"
  /\ \E resp \in loginTimers : token = resp.token

\* the form data the validation refuses, in the words of the claim
Invalid(fd, login) ==
  \/ fd.email = S_empty
  \/ login /\ fd.password = S_empty
  \/ ~login /\ (fd.fullName = S_empty \/ fd.password # fd.confirmPassword)

\* C21: the validation of handleSubmit refuses exactly the form data with an
\* empty email, in login mode an empty password, in sign-up mode an empty
\* full name or a password different from its confirmation; a refused submit
\* marks the fields in error and calls no provider, does not set the loading
\* flag and leaves the stored token, the profile and the view as they are.
C21_ValidationFailure ==
  /\ [](\A fd \in FormData : \A login \in BOOLEAN :
          (NewErrors(fd, login) # {}) <=> Invalid(fd, login))
  /\ [](errors # {} => AuthMounted /\ ~isLoading /\ authReqs = {}
                          /\ loginTimers = {} /\ user = NoUser)
  /\ [][(errors' # {} /\ errors' # errors) =>
          /\ ~isLoading /\ ~isLoading'
          /\ authReqs' = authReqs /\ loginTimers' = loginTimers
          /\ providerCalled' = providerCalled
          /\ cycles' = cycles /\ devReqs' = devReqs
          /\ token' = token /\ useLiveFlag' = useLiveFlag
          /\ user' = user /\ view' = view /\ isInitializing' = isInitializing
          /\ status' = NullStatus]_vars

\* a sign-up with a password that differs from its confirmation was refused
\* on a page that has called no provider and stores no token
C21_Witness ==
  /\ AuthMounted /\ ~isLogin /\ "confirmPassword" \in errors
  /\ ~isLoading /\ authReqs = {} /\ ~providerCalled
  /\ token = NoToken /\ user = NoUser

=============================================================================
